---- MODULE Spec2Model ----
(***************************************************************************)
(* The in-memory shell of src/App.tsx: the file system tree, the path      *)
(* resolver, the command handler, the editor overlay and the oracle calls. *)
(* A JavaScript string is a sequence of one-character strings, so that     *)
(* split, join, trim, substring and replace are computed, not assumed.     *)
(***************************************************************************)
EXTENDS Naturals, Sequences, FiniteSets, TLC

VARIABLES
    history,       \* useState<HistoryEntry[]>            (App.tsx:69)
    fileSystem,    \* useState<FileSystem>                (App.tsx:71)
    currentPath,   \* useState<string[]>                  (App.tsx:72)
    editorState,   \* useState<EditorState>               (App.tsx:73)
    isLoading,     \* useState(false)                     (App.tsx:74)
    content,       \* the Editor's buffer, useState       (Editor.tsx:11)
    pending,       \* the handler suspended at an await   (App.tsx:413,425,439)
    submitted,     \* history variable: the number of command lines submitted
    lastOp,        \* history variable: the last step taken and its input
    prevFS,        \* history variable: fileSystem before the last step
    prevPath,      \* history variable: currentPath before the last step
    prevLen,       \* history variable: the length of history before the last step
    prevOpen       \* history variable: editorState.isOpen before the last step

vars == <<history, fileSystem, currentPath, editorState, isLoading,
          content, pending, submitted, lastOp, prevFS, prevPath, prevLen, prevOpen>>

-----------------------------------------------------------------------------
(* Strings *)

EMPTY == <<>>
SLASH == <<"/">>
DOT == <<".">>
DOTDOT == <<".", ".">>
SPACE == <<" ">>
\* the backquote character, which a TLA+ string literal cannot hold
BQ == "backquote"

README_MD == <<"R","E","A","D","M","E",".","m","d">>
EXAMPLE_PY == <<"e","x","a","m","p","l","e",".","p","y">>
HOME == <<"h","o","m","e">>
USER == <<"u","s","e","r">>
ROOT_NAME == <<"r","o","o","t">>

README_CONTENT ==
    <<"H","e","l","l","o","!"," ","T","h","i","s"," ","i","s"," ","a"," ",
      "R","E","A","D","M","E"," ","f","i","l","e","."," ","Y","o","u"," ",
      "c","a","n"," ","e","d","i","t"," ","i","t"," ","u","s","i","n","g",
      " ","t","h","e"," ",BQ,"e","d","i","t",BQ," ","c","o","m","m","a",
      "n","d",".">>

EXAMPLE_PY_CONTENT ==
    <<"d","e","f"," ","f","a","c","t","o","r","i","a","l","(","n",")",":",
      "\n"," "," "," "," ","i","f"," ","n"," ","=","="," ","0",":","\n"," ",
      " "," "," "," "," "," "," ","r","e","t","u","r","n"," ","1","\n"," ",
      " "," "," ","e","l","s","e",":","\n"," "," "," "," "," "," "," "," ",
      "r","e","t","u","r","n"," ","n"," ","*"," ","f","a","c","t","o","r",
      "i","a","l","(","n","-","1",")","\n","\n","p","r","i","n","t","(","f",
      "\"","T","h","e"," ","f","a","c","t","o","r","i","a","l"," ","o","f",
      " ","5"," ","i","s"," ","{","f","a","c","t","o","r","i","a","l","(",
      "5",")","}","\"",")","\n">>

\* s.substring(from) with a 0-based index
Substring(s, from) == SubSeq(s, from + 1, Len(s))

\* s.slice(0, -1) on an array
DropLast(s) == SubSeq(s, 1, Len(s) - 1)

\* s[s.length - 1] || ''   and   s.pop() || ''
LastOrEmpty(s) == IF Len(s) = 0 THEN EMPTY ELSE s[Len(s)]

\* s.indexOf(c) as a 1-based position, 0 when c does not occur
IndexOf(s, c) ==
    IF \E i \in 1..Len(s) : s[i] = c
    THEN CHOOSE i \in 1..Len(s) : s[i] = c /\ \A j \in 1..(i - 1) : s[j] # c
    ELSE 0

\* s.lastIndexOf(c) as a 1-based position, 0 when c does not occur
LastIndexOf(s, c) ==
    IF \E i \in 1..Len(s) : s[i] = c
    THEN CHOOSE i \in 1..Len(s) : s[i] = c /\ \A j \in (i + 1)..Len(s) : s[j] # c
    ELSE 0

\* s.split(sep) for a one-character separator
RECURSIVE Split(_, _)
Split(s, sep) ==
    LET i == IndexOf(s, sep)
    IN  IF i = 0 THEN <<s>>
        ELSE <<SubSeq(s, 1, i - 1)>> \o Split(SubSeq(s, i + 1, Len(s)), sep)

\* parts.join(sep)
RECURSIVE Join(_, _)
Join(parts, sep) ==
    IF Len(parts) = 0 THEN EMPTY
    ELSE IF Len(parts) = 1 THEN parts[1]
    ELSE parts[1] \o <<sep>> \o Join(Tail(parts), sep)

\* parts.filter(p => p && p !== '.')
RECURSIVE FilterSegments(_)
FilterSegments(parts) ==
    IF Len(parts) = 0 THEN <<>>
    ELSE IF Head(parts) = EMPTY \/ Head(parts) = DOT
         THEN FilterSegments(Tail(parts))
         ELSE <<Head(parts)>> \o FilterSegments(Tail(parts))

WhiteSpace == {" ", "\n"}

\* s.trim()
RECURSIVE TrimStart(_)
TrimStart(s) ==
    IF Len(s) > 0 /\ Head(s) \in WhiteSpace THEN TrimStart(Tail(s)) ELSE s

RECURSIVE TrimEnd(_)
TrimEnd(s) ==
    IF Len(s) > 0 /\ s[Len(s)] \in WhiteSpace THEN TrimEnd(DropLast(s)) ELSE s

Trim(s) == TrimEnd(TrimStart(s))

\* path.replace(/\/$/, '')
StripTrailingSlash(s) ==
    IF Len(s) > 0 /\ s[Len(s)] = "/" THEN DropLast(s) ELSE s

-----------------------------------------------------------------------------
(* The tree *)

Null == [type |-> "null"]

FileNode(name, text) == [type |-> "FILE", name |-> name, content |-> text]

DirectoryNode(name, children) ==
    [type |-> "DIRECTORY", name |-> name, children |-> children]

NoChildren == [k \in {} |-> Null]

INITIAL_FILESYSTEM ==
    [k \in {HOME} |->
        DirectoryNode(HOME,
            [k2 \in {USER} |->
                DirectoryNode(USER,
                    [k3 \in {README_MD, EXAMPLE_PY} |->
                        IF k3 = README_MD
                        THEN FileNode(README_MD, README_CONTENT)
                        ELSE FileNode(EXAMPLE_PY, EXAMPLE_PY_CONTENT)])])]

\* the synthetic root of getNodeFromPath
RootNode(fs) == DirectoryNode(ROOT_NAME, fs)

RECURSIVE Walk(_, _)
Walk(current, path) ==
    IF Len(path) = 0 THEN current
    ELSE IF current.type = "DIRECTORY" /\ Head(path) \in DOMAIN current.children
         THEN Walk(current.children[Head(path)], Tail(path))
         ELSE Null

getNodeFromPath(fs, path) == Walk(RootNode(fs), path)

IsNode(n) == n # Null
IsDir(n) == n.type = "DIRECTORY"
IsFile(n) == n.type = "FILE"

\* children[name] = node
WithChild(children, name, node) ==
    [k \in DOMAIN children \cup {name} |-> IF k = name THEN node ELSE children[k]]

\* delete children[name]
WithoutChild(children, name) ==
    [k \in DOMAIN children \ {name} |-> children[k]]

\* getNodeFromPath(newFS, path).children[name] = node, on the copy newFS
RECURSIVE PutAt(_, _, _, _)
PutAt(fs, path, name, node) ==
    IF Len(path) = 0 THEN WithChild(fs, name, node)
    ELSE [fs EXCEPT ![Head(path)] =
            [@ EXCEPT !.children = PutAt(@, Tail(path), name, node)]]

\* delete getNodeFromPath(newFS, path).children[name], on the copy newFS
RECURSIVE DeleteAt(_, _, _)
DeleteAt(fs, path, name) ==
    IF Len(path) = 0 THEN WithoutChild(fs, name)
    ELSE [fs EXCEPT ![Head(path)] =
            [@ EXCEPT !.children = DeleteAt(@, Tail(path), name)]]

\* getNodeFromPath(newFS, path).content = text, on the copy newFS
RECURSIVE SetContentAt(_, _, _)
SetContentAt(fs, path, text) ==
    IF Len(path) = 1 THEN [fs EXCEPT ![path[1]] = [@ EXCEPT !.content = text]]
    ELSE [fs EXCEPT ![Head(path)] =
            [@ EXCEPT !.children = SetContentAt(@, Tail(path), text)]]

-----------------------------------------------------------------------------
(* resolvePath *)

\* a variant of the loop in which '..' at the root is kept as a segment
RECURSIVE AccumulateAboveRoot(_, _)
AccumulateAboveRoot(resolutionPath, pathSegments) ==
    IF Len(pathSegments) = 0 THEN resolutionPath
    ELSE IF Head(pathSegments) = DOTDOT /\ Len(resolutionPath) > 0
         THEN AccumulateAboveRoot(DropLast(resolutionPath), Tail(pathSegments))
         ELSE AccumulateAboveRoot(Append(resolutionPath, Head(pathSegments)),
                                  Tail(pathSegments))

\* the loop over pathSegments: '..' pops, anything else is pushed
RECURSIVE Accumulate(_, _)
Accumulate(resolutionPath, pathSegments) ==
    IF Len(pathSegments) = 0 THEN resolutionPath
    ELSE IF Head(pathSegments) = DOTDOT
         THEN Accumulate(IF Len(resolutionPath) > 0 THEN DropLast(resolutionPath)
                         ELSE resolutionPath, Tail(pathSegments))
         ELSE Accumulate(Append(resolutionPath, Head(pathSegments)),
                         Tail(pathSegments))

IsAbsolutePath(path) == Len(path) > 0 /\ path[1] = "/"

ResolutionPath(path, base) ==
    Accumulate(IF IsAbsolutePath(path) THEN <<>> ELSE base,
               FilterSegments(Split(StripTrailingSlash(path), "/")))

Resolved(parent, node, name, fullPath) ==
    [thrown |-> FALSE, parent |-> parent, node |-> node, name |-> name,
     fullPath |-> fullPath]

\* the call never returns: the recursion exhausts the call stack (RangeError)
StackOverflow ==
    [thrown |-> TRUE, parent |-> Null, node |-> Null, name |-> EMPTY,
     fullPath |-> <<>>]

\* the argument of the recursive call at App.tsx:117-118
PotentialParentArg(path) ==
    LET potentialParentPath == Join(DropLast(Split(path, "/")), "/")
    IN  IF potentialParentPath # EMPTY THEN potentialParentPath
        ELSE IF IsAbsolutePath(path) THEN SLASH ELSE DOT

\* the result once the recursive call for the potential parent has returned
resolveMissing(path, fs, resolutionPath, inner) ==
    IF inner.thrown THEN StackOverflow
    ELSE IF IsNode(inner.node) /\ IsDir(inner.node)
    THEN Resolved(inner.node, Null, LastOrEmpty(Split(path, "/")), resolutionPath)
    ELSE Resolved(getNodeFromPath(fs, DropLast(resolutionPath)), Null,
                  LastOrEmpty(resolutionPath), resolutionPath)

RECURSIVE resolvePath(_, _, _)

\* a recursive call with the arguments of its caller never returns
resolveParent(path, base, fs, resolutionPath, arg) ==
    IF arg = path THEN StackOverflow
    ELSE resolveMissing(path, fs, resolutionPath, resolvePath(arg, base, fs))

resolveNode(path, base, fs, resolutionPath, node) ==
    IF IsNode(node)
    THEN Resolved(getNodeFromPath(fs, DropLast(resolutionPath)), node,
                  LastOrEmpty(resolutionPath), resolutionPath)
    ELSE resolveParent(path, base, fs, resolutionPath, PotentialParentArg(path))

resolveSegments(path, base, fs, resolutionPath) ==
    resolveNode(path, base, fs, resolutionPath, getNodeFromPath(fs, resolutionPath))

resolvePath(path, base, fs) ==
    IF path = EMPTY
    THEN Resolved(getNodeFromPath(fs, DropLast(base)), getNodeFromPath(fs, base),
                  LastOrEmpty(base), base)
    ELSE resolveSegments(path, base, fs, ResolutionPath(path, base))

getPathString(pathArray) == SLASH \o Join(pathArray, "/")


\* s.replace(pat, rep) for a string pattern: the first occurrence only
ReplaceFirst(s, pat, rep) ==
    LET Occurs(i) == i + Len(pat) - 1 <= Len(s) /\ SubSeq(s, i, i + Len(pat) - 1) = pat
    IN  IF \E i \in 1..Len(s) : Occurs(i)
        THEN LET i == CHOOSE k \in 1..Len(s) :
                          Occurs(k) /\ \A j \in 1..(k - 1) : ~Occurs(j)
             IN  SubSeq(s, 1, i - 1) \o rep \o SubSeq(s, i + Len(pat), Len(s))
        ELSE s

TILDE == <<"~">>
HOME_USER == SLASH \o HOME \o SLASH \o USER

\* getPathString().replace('/home/user', '~')
pathDisplay(cwd) == ReplaceFirst(getPathString(cwd), HOME_USER, TILDE)

-----------------------------------------------------------------------------
(* The command words *)

W_help == <<"h","e","l","p">>
W_clear == <<"c","l","e","a","r">>
W_whoami == <<"w","h","o","a","m","i">>
W_date == <<"d","a","t","e">>
W_pwd == <<"p","w","d">>
W_history == <<"h","i","s","t","o","r","y">>
W_ls == <<"l","s">>
W_cd == <<"c","d">>
W_cat == <<"c","a","t">>
W_head == <<"h","e","a","d">>
W_tail == <<"t","a","i","l">>
W_mkdir == <<"m","k","d","i","r">>
W_touch == <<"t","o","u","c","h">>
W_edit == <<"e","d","i","t">>
W_echo == <<"e","c","h","o">>
W_rm == <<"r","m">>
W_mv == <<"m","v">>
W_cp == <<"c","p">>
W_grep == <<"g","r","e","p">>
W_man == <<"m","a","n">>
W_python == <<"p","y","t","h","o","n">>
W_askai == <<"a","s","k","a","i">>
W_zzz == <<"z","z","z">>
DASH_R == <<"-","r">>

\* const [action, ...args] = cmd.trim().split(' ')
Words(cmd) == Split(Trim(cmd), " ")
Action(cmd) == Head(Words(cmd))

\* args[i] with a 0-based index; an absent argument reads as falsy, like ''
Arg(args, i) == IF i + 1 <= Len(args) THEN args[i + 1] ELSE EMPTY

-----------------------------------------------------------------------------
(* Results of a handler *)

\* what a history entry shows: the message, the command word and the text
\* interpolated into it, and the names or lines of a listing
Out(kind, action, text) ==
    [kind |-> kind, action |-> action, text |-> text, items |-> {}]

Listing(kind, action, items) ==
    [kind |-> kind, action |-> action, text |-> EMPTY, items |-> items]

\* output = ''
NoOutput == Out("", EMPTY, EMPTY)

ErrorKinds ==
    {"cannot access", "No such file or directory", "missing file operand",
     "Is a directory", "File exists", "missing operand", "Invalid path",
     "missing output file", "cannot stat", "cannot move to", "usage",
     "what manual page do you want?", "can't open file",
     "please provide a question.", "command not found"}

NoEdit == [set |-> FALSE, filePath |-> EMPTY, fileContent |-> EMPTY]
OpenEdit(filePath, text) ==
    [set |-> TRUE, filePath |-> filePath, fileContent |-> text]

\* the handler ran to its end: the tree and currentPath to install, the
\* editor state to set, the output, and the oracle call it awaits (if any)
Outcome(fs, cwd, edit, output, await) ==
    [thrown |-> FALSE, clear |-> FALSE, fs |-> fs, path |-> cwd, edit |-> edit,
     output |-> output, await |-> await]

Result(fs, cwd, output) == Outcome(fs, cwd, NoEdit, output, "none")

\* an exception left the handler before any of its later state updates
Thrown(fs, cwd) ==
    [thrown |-> TRUE, clear |-> FALSE, fs |-> fs, path |-> cwd, edit |-> NoEdit,
     output |-> NoOutput, await |-> "none"]

\* case 'clear': setHistory([]); setIsLoading(false); return
Cleared(fs, cwd) ==
    [thrown |-> FALSE, clear |-> TRUE, fs |-> fs, path |-> cwd, edit |-> NoEdit,
     output |-> NoOutput, await |-> "none"]

-----------------------------------------------------------------------------
(* The cases of handleCommand *)

HEAD_TAIL_LINES == 10

\* lines.slice(0, 10)
FirstLines(lines) ==
    SubSeq(lines, 1, IF Len(lines) < HEAD_TAIL_LINES THEN Len(lines) ELSE HEAD_TAIL_LINES)

\* lines.slice(-10)
LastLines(lines) ==
    SubSeq(lines, IF Len(lines) > HEAD_TAIL_LINES THEN Len(lines) - HEAD_TAIL_LINES + 1 ELSE 1,
           Len(lines))

lsResolved(targetPath, r, fs, cwd) ==
    IF r.thrown THEN Thrown(fs, cwd)
    ELSE IF IsNode(r.node) /\ IsDir(r.node)
    THEN Result(fs, cwd, Listing("ls", W_ls,
             {r.node.children[k].name : k \in DOMAIN r.node.children}))
    ELSE IF IsNode(r.node) /\ IsFile(r.node)
    THEN Result(fs, cwd, Out("ls", W_ls, r.node.name))
    ELSE Result(fs, cwd, Out("cannot access", W_ls, targetPath))

lsTarget(targetPath, fs, cwd) ==
    lsResolved(targetPath, resolvePath(targetPath, cwd, fs), fs, cwd)

lsCase(args, fs, cwd) ==
    lsTarget(IF Arg(args, 0) # EMPTY THEN Arg(args, 0) ELSE DOT, fs, cwd)

cdResolved(path, r, fs, cwd) ==
    IF r.thrown THEN Thrown(fs, cwd)
    ELSE IF IsNode(r.node) /\ IsDir(r.node)
    THEN Result(fs, r.fullPath, NoOutput)
    ELSE Result(fs, cwd, Out("No such file or directory", W_cd, path))

cdTarget(path, fs, cwd) ==
    cdResolved(path, resolvePath(IF path = TILDE THEN HOME_USER ELSE path, cwd, fs),
               fs, cwd)

cdCase(args, fs, cwd) ==
    cdTarget(IF Arg(args, 0) # EMPTY THEN Arg(args, 0) ELSE HOME_USER, fs, cwd)

contentToShow(action, text, lines) ==
    IF action = W_head THEN Join(FirstLines(lines), "\n")
    ELSE IF action = W_tail THEN Join(LastLines(lines), "\n")
    ELSE text

catResolved(action, operand, r, fs, cwd) ==
    IF r.thrown THEN Thrown(fs, cwd)
    ELSE IF IsNode(r.node) /\ IsFile(r.node)
    THEN Result(fs, cwd,
                Out("pre", action,
                    contentToShow(action, r.node.content, Split(r.node.content, "\n"))))
    ELSE IF IsNode(r.node) /\ IsDir(r.node)
    THEN Result(fs, cwd, Out("Is a directory", action, operand))
    ELSE Result(fs, cwd, Out("No such file or directory", action, operand))

catOperand(action, operand, fs, cwd) ==
    IF operand = EMPTY
    THEN Result(fs, cwd, Out("missing file operand", action, EMPTY))
    ELSE catResolved(action, operand, resolvePath(operand, cwd, fs), fs, cwd)

catCase(action, args, fs, cwd) == catOperand(action, Arg(args, 0), fs, cwd)

\* newParent.children[name] = node, with newParent looked up in the copy:
\* a newParent that is null or a FILE has no children to assign into
HasChildren(newParent) == IsNode(newParent) /\ IsDir(newParent)

CanAssignChild(fs, parentPath) == HasChildren(getNodeFromPath(fs, parentPath))

\* a variant without the existingNode test: the target is written over
mkdirTouchOverwrites(action, targetName, r, fs, cwd) ==
    IF r.thrown THEN Thrown(fs, cwd)
    ELSE IF IsNode(r.parent)
    THEN IF ~CanAssignChild(fs, DropLast(r.fullPath)) THEN Thrown(fs, cwd)
         ELSE Result(PutAt(fs, DropLast(r.fullPath), r.name,
                           IF action = W_mkdir
                           THEN DirectoryNode(r.name, NoChildren)
                           ELSE FileNode(r.name, EMPTY)),
                     cwd, NoOutput)
    ELSE Result(fs, cwd, Out("No such file or directory", action, targetName))

mkdirTouchResolved(action, targetName, r, fs, cwd) ==
    IF r.thrown THEN Thrown(fs, cwd)
    ELSE IF IsNode(r.node)
    THEN Result(fs, cwd, Out("File exists", action, targetName))
    ELSE IF IsNode(r.parent)
    THEN IF ~CanAssignChild(fs, DropLast(r.fullPath)) THEN Thrown(fs, cwd)
         ELSE Result(PutAt(fs, DropLast(r.fullPath), r.name,
                           IF action = W_mkdir
                           THEN DirectoryNode(r.name, NoChildren)
                           ELSE FileNode(r.name, EMPTY)),
                     cwd, NoOutput)
    ELSE Result(fs, cwd, Out("No such file or directory", action, targetName))

mkdirTouchTarget(action, targetName, fs, cwd) ==
    IF targetName = EMPTY
    THEN Result(fs, cwd, Out("missing operand", action, EMPTY))
    ELSE mkdirTouchResolved(action, targetName, resolvePath(targetName, cwd, fs),
                            fs, cwd)

mkdirTouchCase(action, args, fs, cwd) ==
    mkdirTouchTarget(action, Arg(args, 0), fs, cwd)

editResolved(targetName, r, fs, cwd) ==
    IF r.thrown THEN Thrown(fs, cwd)
    ELSE IF IsNode(r.node)
    THEN IF IsFile(r.node)
         THEN Outcome(fs, cwd, OpenEdit(getPathString(r.fullPath), r.node.content),
                      NoOutput, "none")
         ELSE Result(fs, cwd, Out("Is a directory", W_edit, targetName))
    ELSE IF IsNode(r.parent)
    THEN IF ~CanAssignChild(fs, DropLast(r.fullPath)) THEN Thrown(fs, cwd)
         ELSE Outcome(PutAt(fs, DropLast(r.fullPath), r.name, FileNode(r.name, EMPTY)),
                      cwd, OpenEdit(getPathString(r.fullPath), EMPTY),
                      NoOutput, "none")
    ELSE Result(fs, cwd, Out("No such file or directory", W_edit, targetName))

editTarget(targetName, fs, cwd) ==
    IF targetName = EMPTY
    THEN Result(fs, cwd, Out("missing operand", W_edit, EMPTY))
    ELSE editResolved(targetName, resolvePath(targetName, cwd, fs), fs, cwd)

editCase(args, fs, cwd) == editTarget(Arg(args, 0), fs, cwd)

Quotes == {"'", "\""}

\* text.replace(/^['"]/, '') and text.replace(/['"]$/, ''), the two
\* alternatives of /^['"]|['"]$/g
StripLeadingQuote(text) ==
    IF Len(text) > 0 /\ text[1] \in Quotes THEN Tail(text) ELSE text

StripTrailingQuote(text) ==
    IF Len(text) > 0 /\ text[Len(text)] \in Quotes THEN DropLast(text) ELSE text

StripQuotes(text) == StripTrailingQuote(StripLeadingQuote(text))

ECHO_PREFIX == 5

echoResolved(text, fileName, r, fs, cwd) ==
    IF r.thrown THEN Thrown(fs, cwd)
    ELSE IF IsNode(r.parent)
    THEN IF ~CanAssignChild(fs, DropLast(r.fullPath)) THEN Thrown(fs, cwd)
         ELSE Result(PutAt(fs, DropLast(r.fullPath), r.name, FileNode(r.name, text)),
                     cwd, NoOutput)
    ELSE Result(fs, cwd, Out("Invalid path", W_echo, fileName))

echoFile(text, fileName, fs, cwd) ==
    IF fileName = EMPTY
    THEN Result(fs, cwd, Out("missing output file", W_echo, EMPTY))
    ELSE echoResolved(text, fileName, resolvePath(fileName, cwd, fs), fs, cwd)

echoRedirect(echoCmd, redirectIndex, fs, cwd) ==
    IF redirectIndex = 0 THEN Result(fs, cwd, Out("echo", W_echo, echoCmd))
    ELSE echoFile(StripQuotes(Trim(SubSeq(echoCmd, 1, redirectIndex - 1))),
                  Trim(SubSeq(echoCmd, redirectIndex + 1, Len(echoCmd))), fs, cwd)

echoText(echoCmd, fs, cwd) ==
    echoRedirect(echoCmd, LastIndexOf(echoCmd, ">"), fs, cwd)

echoCase(cmd, fs, cwd) == echoText(Substring(cmd, ECHO_PREFIX), fs, cwd)

rmResolved(isRecursive, targetPath, r, fs, cwd) ==
    IF r.thrown THEN Thrown(fs, cwd)
    ELSE IF ~IsNode(r.node)
    THEN Result(fs, cwd, Out("No such file or directory", W_rm, targetPath))
    ELSE IF IsDir(r.node) /\ DOMAIN r.node.children # {} /\ ~isRecursive
    THEN Result(fs, cwd, Out("Is a directory", W_rm, targetPath))
    ELSE IF ~CanAssignChild(fs, DropLast(r.fullPath)) THEN Thrown(fs, cwd)
    ELSE Result(DeleteAt(fs, DropLast(r.fullPath), r.node.name), cwd, NoOutput)

rmTarget(isRecursive, targetPath, fs, cwd) ==
    IF targetPath = EMPTY
    THEN Result(fs, cwd, Out("missing operand", W_rm, EMPTY))
    ELSE rmResolved(isRecursive, targetPath, resolvePath(targetPath, cwd, fs), fs, cwd)

rmCase(args, fs, cwd) ==
    rmTarget(Arg(args, 0) = DASH_R,
             IF Arg(args, 0) = DASH_R THEN Arg(args, 1) ELSE Arg(args, 0), fs, cwd)

\* mv: delete sourceParent.children[sourceNode.name] on the written copy
mvRemoveSource(src, written, fs, cwd) ==
    IF ~CanAssignChild(written, DropLast(src.fullPath)) THEN Thrown(fs, cwd)
    ELSE Result(DeleteAt(written, DropLast(src.fullPath), src.node.name),
                cwd, NoOutput)

\* a variant that takes the source of mv out before it tests the destination
mvCpWriteSourceFirst(action, destPath, src, finalDestParentPath, finalDestName, fs, cwd) ==
    IF ~CanAssignChild(fs, finalDestParentPath)
    THEN Result(IF action = W_mv /\ CanAssignChild(fs, DropLast(src.fullPath))
                THEN DeleteAt(fs, DropLast(src.fullPath), src.node.name)
                ELSE fs,
                cwd, Out("cannot move to", action, destPath))
    ELSE IF action = W_mv
    THEN mvRemoveSource(src,
                        PutAt(fs, finalDestParentPath, finalDestName,
                              [src.node EXCEPT !.name = finalDestName]),
                        fs, cwd)
    ELSE Result(PutAt(fs, finalDestParentPath, finalDestName,
                      [src.node EXCEPT !.name = finalDestName]),
                cwd, NoOutput)

\* destParent.children[finalDestName] = newSourceNode
\* a variant without newSourceNode.name = finalDestName
mvCpWriteKeepsName(action, destPath, src, finalDestParentPath, finalDestName, fs, cwd) ==
    IF ~CanAssignChild(fs, finalDestParentPath)
    THEN Result(fs, cwd, Out("cannot move to", action, destPath))
    ELSE IF action = W_mv
    THEN mvRemoveSource(src,
                        PutAt(fs, finalDestParentPath, finalDestName, src.node),
                        fs, cwd)
    ELSE Result(PutAt(fs, finalDestParentPath, finalDestName, src.node),
                cwd, NoOutput)

mvCpWrite(action, destPath, src, finalDestParentPath, finalDestName, fs, cwd) ==
    IF ~CanAssignChild(fs, finalDestParentPath)
    THEN Result(fs, cwd, Out("cannot move to", action, destPath))
    ELSE IF action = W_mv
    THEN mvRemoveSource(src,
                        PutAt(fs, finalDestParentPath, finalDestName,
                              [src.node EXCEPT !.name = finalDestName]),
                        fs, cwd)
    ELSE Result(PutAt(fs, finalDestParentPath, finalDestName,
                      [src.node EXCEPT !.name = finalDestName]),
                cwd, NoOutput)

mvCpDest(action, destPath, src, dst, fs, cwd) ==
    IF dst.thrown THEN Thrown(fs, cwd)
    ELSE IF IsNode(dst.node) /\ IsDir(dst.node)
    THEN mvCpWrite(action, destPath, src, dst.fullPath, src.node.name, fs, cwd)
    ELSE mvCpWrite(action, destPath, src, DropLast(dst.fullPath), dst.name, fs, cwd)

mvCpSource(action, sourcePath, destPath, src, fs, cwd) ==
    IF src.thrown THEN Thrown(fs, cwd)
    ELSE IF ~IsNode(src.node)
    THEN Result(fs, cwd, Out("cannot stat", action, sourcePath))
    ELSE mvCpDest(action, destPath, src, resolvePath(destPath, cwd, fs), fs, cwd)

mvCpPaths(action, sourcePath, destPath, fs, cwd) ==
    IF sourcePath = EMPTY \/ destPath = EMPTY
    THEN Result(fs, cwd, Out("missing operand", action, EMPTY))
    ELSE mvCpSource(action, sourcePath, destPath, resolvePath(sourcePath, cwd, fs),
                    fs, cwd)

mvCpCase(action, args, fs, cwd) ==
    mvCpPaths(action, Arg(args, 0), Arg(args, 1), fs, cwd)

\* line.includes(pattern)
Includes(line, pattern) ==
    \E i \in 1..(Len(line) + 1) :
        i + Len(pattern) - 1 <= Len(line)
        /\ SubSeq(line, i, i + Len(pattern) - 1) = pattern

grepResolved(pattern, filePath, r, fs, cwd) ==
    IF r.thrown THEN Thrown(fs, cwd)
    ELSE IF IsNode(r.node) /\ IsFile(r.node)
    THEN Result(fs, cwd,
           Out("grep", W_grep,
               Join(SelectSeq(Split(r.node.content, "\n"),
                              LAMBDA line : Includes(line, pattern)), "\n")))
    ELSE Result(fs, cwd, Out("No such file or directory", W_grep, filePath))

grepArgs(pattern, filePath, fs, cwd) ==
    IF pattern = EMPTY \/ filePath = EMPTY
    THEN Result(fs, cwd, Out("usage", W_grep, EMPTY))
    ELSE grepResolved(pattern, filePath, resolvePath(filePath, cwd, fs), fs, cwd)

grepCase(args, fs, cwd) == grepArgs(Arg(args, 0), Arg(args, 1), fs, cwd)

manCase(args, fs, cwd) ==
    IF Arg(args, 0) = EMPTY
    THEN Result(fs, cwd, Out("what manual page do you want?", W_man, EMPTY))
    ELSE Outcome(fs, cwd, NoEdit, Out("Fetching manual page...", W_man, EMPTY), "man")

pythonResolved(operand, r, fs, cwd) ==
    IF r.thrown THEN Thrown(fs, cwd)
    ELSE IF IsNode(r.node) /\ IsFile(r.node)
    THEN Outcome(fs, cwd, NoEdit, Out("Executing with AI...", W_python, EMPTY), "python")
    ELSE Result(fs, cwd, Out("can't open file", W_python, operand))

pythonOperand(operand, fs, cwd) ==
    IF operand = EMPTY
    THEN Result(fs, cwd, Out("missing file operand", W_python, EMPTY))
    ELSE pythonResolved(operand, resolvePath(operand, cwd, fs), fs, cwd)

pythonCase(args, fs, cwd) == pythonOperand(Arg(args, 0), fs, cwd)

askaiQuestion(question, fs, cwd) ==
    IF question = EMPTY
    THEN Result(fs, cwd, Out("please provide a question.", W_askai, EMPTY))
    ELSE Outcome(fs, cwd, NoEdit, Out("Thinking...", W_askai, EMPTY), "askai")

askaiCase(args, fs, cwd) == askaiQuestion(Join(args, " "), fs, cwd)

\* history.filter(h => h.command).map(h => h.command)
historyCase(fs, cwd, hist) ==
    Result(fs, cwd,
           Listing("history", W_history,
                   {hist[i].command : i \in {j \in 1..Len(hist) : hist[j].command # EMPTY}}))

\* the switch of handleCommand, up to its end or its first await
dispatch(cmd, action, args, fs, cwd, hist) ==
    CASE action = W_help -> Result(fs, cwd, Out("help", action, EMPTY))
      [] action = W_clear -> Cleared(fs, cwd)
      [] action = W_whoami -> Result(fs, cwd, Out("user", action, EMPTY))
      [] action = W_date -> Result(fs, cwd, Out("date", action, EMPTY))
      [] action = W_pwd -> Result(fs, cwd, Out("pwd", action, getPathString(cwd)))
      [] action = W_history -> historyCase(fs, cwd, hist)
      [] action = W_ls -> lsCase(args, fs, cwd)
      [] action = W_cd -> cdCase(args, fs, cwd)
      [] action \in {W_cat, W_head, W_tail} -> catCase(action, args, fs, cwd)
      [] action \in {W_mkdir, W_touch} -> mkdirTouchCase(action, args, fs, cwd)
      [] action = W_edit -> editCase(args, fs, cwd)
      [] action = W_echo -> echoCase(cmd, fs, cwd)
      [] action = W_rm -> rmCase(args, fs, cwd)
      [] action \in {W_mv, W_cp} -> mvCpCase(action, args, fs, cwd)
      [] action = W_grep -> grepCase(args, fs, cwd)
      [] action = W_man -> manCase(args, fs, cwd)
      [] action = W_python -> pythonCase(args, fs, cwd)
      [] action = W_askai -> askaiCase(args, fs, cwd)
      [] action = EMPTY -> Result(fs, cwd, NoOutput)
      [] OTHER -> Result(fs, cwd, Out("command not found", action, action))

handleWords(cmd, words, fs, cwd, hist) ==
    dispatch(cmd, Head(words), Tail(words), fs, cwd, hist)

handleCommand(cmd, fs, cwd, hist) == handleWords(cmd, Words(cmd), fs, cwd, hist)

-----------------------------------------------------------------------------
(* Inputs *)

MaxCommands == 2

D == <<"d">>
TEXT_HI == <<"h","i">>
TEXT_HI_UPPER == <<"H","I">>

\* the patterns handed to grep
GrepPatterns == {TEXT_HI, TEXT_HI_UPPER}

\* the path strings a user types
PathStrings ==
    {DOT, DOTDOT, SLASH, D, USER, README_MD, D \o SLASH \o D,
     README_MD \o SLASH \o D, D \o SLASH}

\* further paths handed to mkdir, touch and edit: with a `.`, with a `..`, absolute
CreatePaths == {DOT \o SLASH \o D, DOTDOT \o SLASH \o D, SLASH \o D}

\* a further path handed to cd: more '..' than the session is ever deep
UpPaths == {DOTDOT \o SLASH \o DOTDOT \o SLASH \o DOTDOT}

\* the paths handed to the commands that only read the tree
ReadPaths == {DOT, D, README_MD}

ReadWords == {W_ls, W_cat, W_head, W_tail, W_python}

OnePathWords == {W_cd, W_mkdir, W_touch, W_edit, W_rm}

NoArgLines ==
    {W_help, W_clear, W_whoami, W_date, W_pwd, W_history, W_ls, W_cd, W_cat,
     W_mkdir, W_edit, W_echo, W_rm, W_rm \o SPACE \o DASH_R, W_mv, W_grep, W_man,
     W_python, W_askai, W_zzz, EMPTY, W_cd \o SPACE \o TILDE,
     W_man \o SPACE \o W_ls, W_askai \o SPACE \o TEXT_HI,
     W_echo \o SPACE \o TEXT_HI}

EchoTexts == {TEXT_HI}

DQUOTE == <<"\"">>
GT == <<">">>

\* the texts echoed in double quotes: plain, with a '>' inside, with a
\* leading blank inside the quotes
QuotedTexts == {TEXT_HI, <<"a", ">", "b">>, <<" ", "h", "i">>}

\* echo "text" > file
EchoLine(text, file) ==
    W_echo \o SPACE \o DQUOTE \o text \o DQUOTE \o SPACE \o GT \o SPACE \o file

CommandLines ==
    NoArgLines
    \cup {w \o SPACE \o p : w \in OnePathWords, p \in PathStrings}
    \cup {w \o SPACE \o p : w \in ReadWords, p \in ReadPaths}
    \cup {W_rm \o SPACE \o DASH_R \o SPACE \o p : p \in PathStrings}
    \cup {w \o SPACE \o a \o SPACE \o b : w \in {W_mv, W_cp},
                                         a \in PathStrings, b \in PathStrings}
    \cup {W_echo \o SPACE \o t \o SPACE \o <<">">> \o SPACE \o p :
              t \in EchoTexts, p \in PathStrings}
    \cup {W_grep \o SPACE \o t \o SPACE \o p : t \in GrepPatterns, p \in ReadPaths}
    \cup {EchoLine(t, p) : t \in QuotedTexts, p \in ReadPaths}
    \cup {W_cd \o SPACE \o p : p \in UpPaths}
    \cup {w \o SPACE \o p : w \in {W_mkdir, W_touch, W_edit}, p \in CreatePaths}

\* what the user types into the editor's textarea
EditorTexts == {TEXT_HI, EMPTY}

\* what an oracle call resolves to: the model's answer or the caught error
OracleTexts == {<<"o","k">>, <<"E","r","r","o","r">>}

-----------------------------------------------------------------------------
(* The session *)

WELCOME_MESSAGE == Out("welcome", EMPTY, EMPTY)

HistoryEntry(cmd, output, path) ==
    [command |-> cmd, output |-> output, path |-> path]

NoPending == [kind |-> "none", entry |-> HistoryEntry(EMPTY, NoOutput, EMPTY)]

Op(op, cmd, text, thrown) ==
    [op |-> op, cmd |-> cmd, text |-> text, thrown |-> thrown]

Init ==
    /\ history = <<HistoryEntry(EMPTY, WELCOME_MESSAGE, TILDE)>>
    /\ fileSystem = INITIAL_FILESYSTEM
    /\ currentPath = <<HOME, USER>>
    /\ editorState = [isOpen |-> FALSE, filePath |-> EMPTY, fileContent |-> EMPTY]
    /\ isLoading = FALSE
    /\ content = EMPTY
    /\ pending = NoPending
    /\ submitted = 0
    /\ lastOp = Op("init", EMPTY, EMPTY, FALSE)
    /\ prevFS = INITIAL_FILESYSTEM
    /\ prevPath = <<HOME, USER>>
    /\ prevLen = 1
    /\ prevOpen = FALSE

\* prev.filter(h => h.command !== '')
NonEmptyEntries(hist) == SelectSeq(hist, LAMBDA h : h.command # EMPTY)

\* a variant that writes the entry at the head of the history
updateOutputAtHead(hist, entry, output) ==
    IF Len(hist) = 0 THEN hist
    ELSE [hist EXCEPT ![1] = [entry EXCEPT !.output = output]]

\* updatedHistory[updatedHistory.length - 1] = { ...newHistoryEntry, output }
updateOutput(hist, entry, output) ==
    IF Len(hist) = 0 THEN hist
    ELSE [hist EXCEPT ![Len(hist)] = [entry EXCEPT !.output = output]]

\* setEditorState({ isOpen: true, ... }) and the Editor's effect on fileContent
EditorAfter(ed, edit) ==
    IF edit.set
    THEN [isOpen |-> TRUE, filePath |-> edit.filePath, fileContent |-> edit.fileContent]
    ELSE ed

ContentAfter(ed, buffer, edit) ==
    IF edit.set /\ edit.fileContent # ed.fileContent THEN edit.fileContent ELSE buffer

\* the state updates of one run of handleCommand, up to its end, its first
\* await or the exception that leaves it
Install(cmd, out, newHistoryEntry, appended) ==
    /\ history' = IF out.clear THEN <<>>
                  ELSE IF out.thrown THEN appended
                  ELSE updateOutput(appended, newHistoryEntry, out.output)
    /\ isLoading' = (out.thrown \/ out.await # "none")
    /\ fileSystem' = out.fs
    /\ currentPath' = out.path
    /\ editorState' = EditorAfter(editorState, out.edit)
    /\ content' = ContentAfter(editorState, content, out.edit)
    /\ pending' = IF out.await = "none" THEN NoPending
                  ELSE [kind |-> out.await, entry |-> newHistoryEntry]
    /\ submitted' = submitted + 1
    /\ lastOp' = Op("command", cmd, EMPTY, out.thrown)
    /\ prevFS' = fileSystem
    /\ prevPath' = currentPath
    /\ prevLen' = Len(history)
    /\ prevOpen' = editorState.isOpen

Append1(cmd, out, newHistoryEntry) ==
    Install(cmd, out, newHistoryEntry, Append(NonEmptyEntries(history), newHistoryEntry))

\* handleFormSubmit: the typed line cmd is handed to handleCommand
Submit(cmd) ==
    Append1(cmd, handleCommand(cmd, fileSystem, currentPath, history),
            HistoryEntry(cmd, NoOutput, pathDisplay(currentPath)))

\* the oracles resolve with a string, an error message included; they never reject
runPythonCode == OracleTexts
askAIQuestion == OracleTexts
getManPage == OracleTexts

OracleResult(kind) ==
    CASE kind = "python" -> runPythonCode
      [] kind = "askai" -> askAIQuestion
      [] OTHER -> getManPage

\* the awaited oracle call resolves with text: the handler's last two lines
OracleReturn(text) ==
    /\ pending.kind # "none"
    /\ text \in OracleResult(pending.kind)
    /\ history' = updateOutput(history, pending.entry,
                               Out("pre", Action(pending.entry.command), text))
    /\ isLoading' = FALSE
    /\ pending' = NoPending
    /\ lastOp' = Op("oracle", pending.entry.command, text, FALSE)
    /\ prevFS' = fileSystem
    /\ prevPath' = currentPath
    /\ prevLen' = Len(history)
    /\ prevOpen' = editorState.isOpen
    /\ UNCHANGED <<fileSystem, currentPath, editorState, content, submitted>>

EditorShown == editorState.isOpen /\ editorState.filePath # EMPTY

\* the textarea's onChange
EditorChange(text) ==
    /\ EditorShown
    /\ content # text
    /\ content' = text
    /\ lastOp' = Op("type", editorState.filePath, text, FALSE)
    /\ prevFS' = fileSystem
    /\ prevPath' = currentPath
    /\ prevLen' = Len(history)
    /\ prevOpen' = editorState.isOpen
    /\ UNCHANGED <<history, fileSystem, currentPath, editorState, isLoading, pending, submitted>>

saveResolved(text, r, fs, cwd) ==
    IF r.thrown THEN Thrown(fs, cwd)
    ELSE IF Len(r.fullPath) > 0 /\ IsFile(getNodeFromPath(fs, r.fullPath))
    THEN Result(SetContentAt(fs, r.fullPath, text), cwd, NoOutput)
    ELSE Result(fs, cwd, NoOutput)

handleSaveFile(filePath, text, fs, cwd) ==
    saveResolved(text, resolvePath(Substring(filePath, 1), cwd, fs), fs, cwd)

\* onSave(filePath, content); onClose(): an exception in onSave skips onClose
SaveAndClose(out) ==
    /\ fileSystem' = out.fs
    /\ editorState' = IF out.thrown THEN editorState
                      ELSE [editorState EXCEPT !.isOpen = FALSE]
    /\ lastOp' = Op("save", editorState.filePath, content, out.thrown)
    /\ prevFS' = fileSystem
    /\ prevPath' = currentPath
    /\ prevLen' = Len(history)
    /\ prevOpen' = editorState.isOpen
    /\ UNCHANGED <<history, currentPath, isLoading, content, pending, submitted>>

\* Save & Exit
EditorSave ==
    /\ EditorShown
    /\ SaveAndClose(handleSaveFile(editorState.filePath, content, fileSystem, currentPath))

\* a variant of onClose that commits the buffer before it closes
EditorCloseSaves ==
    /\ EditorShown
    /\ editorState' = [editorState EXCEPT !.isOpen = FALSE]
    /\ fileSystem' =
          IF IsFile(getNodeFromPath(fileSystem, FilterSegments(Split(editorState.filePath, "/"))))
          THEN SetContentAt(fileSystem, FilterSegments(Split(editorState.filePath, "/")), content)
          ELSE fileSystem
    /\ lastOp' = Op("discard", editorState.filePath, content, FALSE)
    /\ prevFS' = fileSystem
    /\ prevPath' = currentPath
    /\ prevLen' = Len(history)
    /\ prevOpen' = editorState.isOpen
    /\ UNCHANGED <<history, currentPath, isLoading, content, pending, submitted>>

\* Discard & Exit and the close button: onClose()
EditorClose ==
    /\ EditorShown
    /\ editorState' = [editorState EXCEPT !.isOpen = FALSE]
    /\ lastOp' = Op("discard", editorState.filePath, content, FALSE)
    /\ prevFS' = fileSystem
    /\ prevPath' = currentPath
    /\ prevLen' = Len(history)
    /\ prevOpen' = editorState.isOpen
    /\ UNCHANGED <<history, fileSystem, currentPath, isLoading, content, pending, submitted>>

\* the input is disabled while a handler is in flight (disabled={isLoading})
CanSubmit == ~isLoading

Next ==
    \/ /\ CanSubmit
       /\ submitted < MaxCommands
       /\ \E cmd \in CommandLines : Submit(cmd)
    \/ \E text \in OracleTexts : OracleReturn(text)
    \/ \E text \in EditorTexts : EditorChange(text)
    \/ EditorSave
    \/ EditorClose

Spec == Init /\ [][Next]_vars

-----------------------------------------------------------------------------
(* What the last step was, and the trees before and after it *)

LastWords == Words(lastOp.cmd)
LastAction == Head(LastWords)
LastArg(i) == Arg(Tail(LastWords), i)

RanCommand(words) == lastOp.op = "command" /\ LastAction \in words

\* the result shown in the entry of the last command
LastOutput == IF Len(history) = 0 THEN NoOutput ELSE history[Len(history)].output

\* the handler ran to its end and left no error message
Succeeded == ~lastOp.thrown /\ LastOutput = NoOutput

EndedWithError == ~lastOp.thrown /\ LastOutput.kind \in ErrorKinds

Before(path) == resolvePath(path, prevPath, prevFS)

Exists(r) == ~r.thrown /\ IsNode(r.node)
ExistsDir(r) == Exists(r) /\ IsDir(r.node)

\* the segments of an absolute path string such as the editor's filePath
AbsoluteSegments(filePath) == FilterSegments(Split(filePath, "/"))

-----------------------------------------------------------------------------
(* C1..C10 *)

\* C1: after `edit P` on a FILE, a change of the buffer to T and Save & Exit,
\* the FILE node at the editor's target absolute path has content T.
C1_SaveRoundTrip ==
    (lastOp.op = "save"
       /\ IsFile(getNodeFromPath(prevFS, AbsoluteSegments(lastOp.cmd))))
    => LET saved == getNodeFromPath(fileSystem, AbsoluteSegments(lastOp.cmd))
       IN  IsFile(saved) /\ saved.content = lastOp.text

\* C2: in every reachable state currentPath denotes an existing DIRECTORY of
\* the current tree.
C2_CurrentPathIsDirectory ==
    LET cwdNode == getNodeFromPath(fileSystem, currentPath)
    IN  IsNode(cwdNode) /\ IsDir(cwdNode)

\* C3: every submitted command line completes: unless an oracle call is still
\* outstanding, its history entry has its result and the session is idle again
\* (isLoading false), so no command leaves the session loading for good.
C3_CommandCompletes ==
    pending.kind = "none" => ~isLoading /\ ~lastOp.thrown

\* C4: after a successful `mv a b` with a an existing node and b an existing
\* directory, a's former node is at b/<basename of a>, and a is gone from its
\* original location unless that location is b/<basename of a>.
C4_MoveIntoDirectory ==
    (RanCommand({W_mv}) /\ Succeeded
       /\ Exists(Before(LastArg(0))) /\ ExistsDir(Before(LastArg(1))))
    => LET src == Before(LastArg(0))
           target == Append(Before(LastArg(1)).fullPath, src.node.name)
       IN  /\ getNodeFromPath(fileSystem, target) = src.node
           /\ src.fullPath # target => ~IsNode(getNodeFromPath(fileSystem, src.fullPath))

\* C5: after a successful `cp a b` the path of a still resolves to a node with
\* the same type, content and subtree as before the command.
C5_CopyKeepsOriginal ==
    (RanCommand({W_cp}) /\ Succeeded /\ Exists(Before(LastArg(0))))
    => getNodeFromPath(fileSystem, Before(LastArg(0)).fullPath) = Before(LastArg(0)).node

\* C6: after a successful `mv src dest` with dest not an existing directory
\* and dest's parent an existing directory, dest resolves to src's former
\* node, renamed to dest's basename; mv never loses the moved node.
C6_MoveRenames ==
    (RanCommand({W_mv}) /\ Succeeded
       /\ Exists(Before(LastArg(0)))
       /\ ~Before(LastArg(1)).thrown /\ ~ExistsDir(Before(LastArg(1)))
       /\ HasChildren(Before(LastArg(1)).parent))
    => LET src == Before(LastArg(0))
           dst == Before(LastArg(1))
       IN  getNodeFromPath(fileSystem, dst.fullPath) = [src.node EXCEPT !.name = dst.name]

\* `rm [-r] P`: the operand P
RmOperand == IF LastArg(0) = DASH_R THEN LastArg(1) ELSE LastArg(0)

\* the tree fs with exactly the subtree rooted at path taken out
WithoutSubtree(fs, path) ==
    IF Len(path) = 0 THEN NoChildren
    ELSE DeleteAt(fs, DropLast(path), path[Len(path)])

\* C7: when `rm [-r] P` on an existing node completes without an error
\* result, the new tree is the old tree with exactly the subtree rooted at P
\* removed, and P no longer resolves to a node.
C7_RemoveTakesSubtreeOut ==
    (RanCommand({W_rm}) /\ Succeeded /\ Exists(Before(RmOperand)))
    => /\ fileSystem = WithoutSubtree(prevFS, Before(RmOperand).fullPath)
       /\ ~IsNode(getNodeFromPath(fileSystem, Before(RmOperand).fullPath))

HasChild(node) == IsDir(node) /\ DOMAIN node.children # {}

\* C8: `rm P` without -r on a directory with at least one child gives an
\* "Is a directory" error and leaves the tree unchanged; `rm -r P` on such a
\* directory removes it with all its descendants.
C8_RemoveDirectory ==
    (RanCommand({W_rm}) /\ RmOperand # EMPTY
       /\ Exists(Before(RmOperand)) /\ HasChild(Before(RmOperand).node))
    => IF LastArg(0) = DASH_R
       THEN /\ ~lastOp.thrown
            /\ ~IsNode(getNodeFromPath(fileSystem, Before(RmOperand).fullPath))
       ELSE /\ EndedWithError
            /\ LastOutput.kind = "Is a directory"
            /\ fileSystem = prevFS

\* C9: a command whose history entry ends with an error result leaves the
\* tree and currentPath as they were before the command.
C9_ErrorLeavesStateUnchanged ==
    (lastOp.op = "command" /\ Len(history) > 0 /\ EndedWithError)
    => fileSystem = prevFS /\ currentPath = prevPath

\* C9 witness: mv refused its destination after it had copied the tree, in a
\* session whose tree an earlier command had changed
C9_Witness ==
    /\ RanCommand({W_mv})
    /\ EndedWithError
    /\ LastOutput.kind = "cannot move to"
    /\ prevFS # INITIAL_FILESYSTEM
    /\ fileSystem = prevFS

\* C10: `mkdir P` and `touch P` on a path that already resolves to a node
\* give a "File exists" error result and leave the tree unchanged.
C10_CreateNeverOverwrites ==
    (RanCommand({W_mkdir, W_touch}) /\ LastArg(0) # EMPTY /\ Exists(Before(LastArg(0))))
    => /\ EndedWithError
       /\ LastOutput.kind = "File exists"
       /\ fileSystem = prevFS

\* C10 witness: `mkdir d; mkdir d`, the second call refused
C10_Witness ==
    /\ lastOp.cmd = W_mkdir \o SPACE \o D
    /\ submitted = 2
    /\ Len(history) = 2
    /\ history[1].command = W_mkdir \o SPACE \o D
    /\ history[1].output = NoOutput
    /\ LastOutput.kind = "File exists"
    /\ IsDir(getNodeFromPath(fileSystem, <<HOME, USER, D>>))

-----------------------------------------------------------------------------
(* C11..C20 *)

\* the canonical segments of path, '.' dropped and '..' applied, from the
\* directory the command was issued in
CanonicalBefore(path) ==
    LET segments == FilterSegments(Split(StripTrailingSlash(path), "/"))
        start == IF IsAbsolutePath(path) THEN <<>> ELSE prevPath
        Walked[i \in 0..Len(segments)] ==
            IF i = 0 THEN start
            ELSE IF segments[i] = DOTDOT
                 THEN IF Len(Walked[i - 1]) = 0 THEN <<>> ELSE DropLast(Walked[i - 1])
                 ELSE Append(Walked[i - 1], segments[i])
    IN  Walked[Len(segments)]

\* path names a missing child of an existing directory of the tree before
Creatable(path) ==
    /\ path # EMPTY
    /\ Len(CanonicalBefore(path)) > 0
    /\ IsDir(getNodeFromPath(prevFS, DropLast(CanonicalBefore(path))))
    /\ ~IsNode(getNodeFromPath(prevFS, CanonicalBefore(path)))

Created(action, name) ==
    IF action = W_mkdir THEN DirectoryNode(name, NoChildren) ELSE FileNode(name, EMPTY)

\* C11: `mkdir P` / `touch P` on a path whose last segment is missing in an
\* existing directory succeeds; afterwards P resolves to a new empty
\* DIRECTORY / FILE named by the last canonical segment, its parent is that
\* directory, and every node that existed before is unchanged.
C11_CreateReadRoundTrip ==
    (RanCommand({W_mkdir, W_touch}) /\ Creatable(LastArg(0)))
    => LET full == CanonicalBefore(LastArg(0))
           r == resolvePath(LastArg(0), currentPath, fileSystem)
       IN  /\ Succeeded
           /\ ~r.thrown
           /\ r.fullPath = full
           /\ r.node = Created(LastAction, full[Len(full)])
           /\ r.parent = getNodeFromPath(fileSystem, DropLast(full))
           /\ IsDir(r.parent)
           /\ fileSystem = PutAt(prevFS, DropLast(full), full[Len(full)],
                                 Created(LastAction, full[Len(full)]))

\* C12: a save changes at most the content of the FILE node at the editor's
\* target absolute path, whatever the current directory is; with no FILE node
\* at that path the tree is left as it was.
C12_SaveFrame ==
    lastOp.op = "save"
    => IF IsFile(getNodeFromPath(prevFS, AbsoluteSegments(lastOp.cmd)))
       THEN \/ fileSystem = prevFS
            \/ fileSystem = SetContentAt(prevFS, AbsoluteSegments(lastOp.cmd), lastOp.text)
       ELSE fileSystem = prevFS

\* no command has been submitted since the `edit` that opened the editor
OpenedByLastCommand ==
    /\ Len(history) > 0
    /\ Action(history[Len(history)].command) = W_edit
    /\ history[Len(history)].output = NoOutput
    /\ ~isLoading

\* C13: Discard & Exit (or the close button) saves nothing: the step leaves
\* the tree as it was, and with no command since the `edit` that opened the
\* editor the edited file still has the content it was opened with, whatever
\* the buffer holds.
C13_DiscardSavesNothing ==
    lastOp.op = "discard"
    => /\ fileSystem = prevFS
       /\ currentPath = prevPath
       /\ ~editorState.isOpen
       /\ OpenedByLastCommand
          => LET edited == getNodeFromPath(fileSystem, AbsoluteSegments(editorState.filePath))
             IN  IsFile(edited) /\ edited.content = editorState.fileContent

\* C13 witness: README.md opened, "hi" typed, the editor closed by discard
C13_Witness ==
    /\ lastOp.op = "discard"
    /\ lastOp.text = TEXT_HI
    /\ OpenedByLastCommand
    /\ AbsoluteSegments(editorState.filePath) = <<HOME, USER, README_MD>>
    /\ getNodeFromPath(fileSystem, <<HOME, USER, README_MD>>).content = README_CONTENT

\* C14: in every session state, the initial one and those after an empty
\* command line included, the unrecognized command `zzz` gives "command not
\* found: zzz", makes the history exactly one entry longer and leaves the
\* tree and currentPath unchanged.
C14_UnknownCommand ==
    (lastOp.op = "command" /\ lastOp.cmd = W_zzz)
    => /\ ~lastOp.thrown
       /\ LastOutput = Out("command not found", W_zzz, W_zzz)
       /\ Len(history) = prevLen + 1
       /\ fileSystem = prevFS
       /\ currentPath = prevPath

UpperCaseLetters ==
    <<"A","B","C","D","E","F","G","H","I","J","K","L","M",
      "N","O","P","Q","R","S","T","U","V","W","X","Y","Z">>

LowerCaseLetters ==
    <<"a","b","c","d","e","f","g","h","i","j","k","l","m",
      "n","o","p","q","r","s","t","u","v","w","x","y","z">>

LowerChar(c) ==
    IF \E i \in DOMAIN UpperCaseLetters : UpperCaseLetters[i] = c
    THEN LowerCaseLetters[CHOOSE i \in DOMAIN UpperCaseLetters : UpperCaseLetters[i] = c]
    ELSE c

LowerCase(s) == [i \in DOMAIN s |-> LowerChar(s[i])]

\* the lines of text that hold pattern when letter case is ignored
LinesWithIgnoringCase(text, pattern) ==
    SelectSeq(Split(text, "\n"),
              LAMBDA line : \E i \in 1..(Len(line) + 1) :
                  /\ i + Len(pattern) - 1 <= Len(line)
                  /\ LowerCase(SubSeq(line, i, i + Len(pattern) - 1)) = LowerCase(pattern))

\* C15: `grep pattern file` on an existing FILE returns exactly the lines of
\* the file that hold the pattern as a substring when letter case is ignored.
C15_GrepIgnoresCase ==
    (RanCommand({W_grep}) /\ LastArg(0) # EMPTY /\ LastArg(1) # EMPTY
       /\ Exists(Before(LastArg(1))) /\ IsFile(Before(LastArg(1)).node))
    => /\ ~lastOp.thrown
       /\ LastOutput =
            Out("grep", W_grep,
                Join(LinesWithIgnoringCase(Before(LastArg(1)).node.content, LastArg(0)), "\n"))

\* file names a destination whose parent is an existing directory of the
\* tree before
Writable(file) ==
    /\ Len(CanonicalBefore(file)) > 0
    /\ IsDir(getNodeFromPath(prevFS, DropLast(CanonicalBefore(file))))

\* C16: `echo "T" > F` with F's parent an existing directory leaves at F a
\* FILE whose content is exactly T (one layer of quotes stripped, nothing of
\* the redirect left, any previous content overwritten), and `cat F` on a
\* FILE shows exactly its content, so that the two in a row show T.
C16_EchoCatRoundTrip ==
    /\ \A text \in QuotedTexts, file \in ReadPaths :
         (lastOp.op = "command" /\ lastOp.cmd = EchoLine(text, file) /\ Writable(file))
         => /\ Succeeded
            /\ getNodeFromPath(fileSystem, CanonicalBefore(file))
                 = FileNode(CanonicalBefore(file)[Len(CanonicalBefore(file))], text)
    /\ (RanCommand({W_cat}) /\ LastArg(0) # EMPTY
          /\ Exists(Before(LastArg(0))) /\ IsFile(Before(LastArg(0)).node))
       => /\ ~lastOp.thrown
          /\ LastOutput = Out("pre", W_cat, Before(LastArg(0)).node.content)

\* the path `cd` was asked to go to: its operand, the home directory for no
\* operand and for `~`
CdOperand ==
    IF LastArg(0) = EMPTY \/ LastArg(0) = TILDE THEN HOME_USER ELSE LastArg(0)

\* C17: only `cd` changes currentPath. Every other command and every editor
\* step leaves it unchanged; a `cd` to a missing node or to a FILE leaves it
\* unchanged with a "No such file or directory" result; a `cd` to a directory
\* sets it to the canonical absolute segments of that directory.
C17_OnlyCdMovesCurrentPath ==
    IF RanCommand({W_cd})
    THEN IF IsDir(getNodeFromPath(prevFS, CanonicalBefore(CdOperand)))
         THEN Succeeded /\ currentPath = CanonicalBefore(CdOperand)
         ELSE /\ EndedWithError
              /\ LastOutput.kind = "No such file or directory"
              /\ currentPath = prevPath
    ELSE currentPath = prevPath

\* path is made of '..' segments only
OnlyDotDot(path) ==
    /\ path # EMPTY
    /\ \A i \in DOMAIN Split(path, "/") : Split(path, "/")[i] = DOTDOT

\* C18: `cd` along at least as many '..' as the current directory is deep,
\* `cd ..` at the root included, gives no error and ends at the root with
\* the tree unchanged; at the root the step changes nothing, however often
\* it is repeated.
C18_DotDotStopsAtRoot ==
    (RanCommand({W_cd}) /\ OnlyDotDot(LastArg(0))
       /\ Len(Split(LastArg(0), "/")) >= Len(prevPath))
    => /\ Succeeded
       /\ currentPath = <<>>
       /\ fileSystem = prevFS

\* C18 witness: `cd ..` issued at the root
C18_Witness ==
    /\ lastOp.cmd = W_cd \o SPACE \o DOTDOT
    /\ prevPath = <<>>
    /\ currentPath = <<>>
    /\ Succeeded

\* the next-to-last canonical component of path is an existing FILE
ThroughFile(path) ==
    /\ path # EMPTY
    /\ Len(CanonicalBefore(path)) > 1
    /\ IsFile(getNodeFromPath(prevFS, DropLast(CanonicalBefore(path))))

\* where `mv a b` writes: inside b if b is a directory, at b otherwise
MoveTarget ==
    IF ExistsDir(Before(LastArg(1)))
    THEN Append(Before(LastArg(1)).fullPath, Before(LastArg(0)).node.name)
    ELSE Before(LastArg(1)).fullPath

IsProperPrefix(s, t) == Len(s) < Len(t) /\ SubSeq(t, 1, Len(s)) = s

Refused == EndedWithError /\ fileSystem = prevFS

\* C19: no exception leaves the handler when a path goes through a file:
\* mkdir, touch, edit and echo-redirect on a path whose next-to-last
\* component is an existing FILE, and mv of a FILE onto one of its own
\* ancestors, end with an error result and an unchanged tree.
C19_NoExceptionThroughFile ==
    /\ (RanCommand({W_mkdir, W_touch, W_edit}) /\ ThroughFile(LastArg(0))) => Refused
    /\ \A text \in EchoTexts, file \in PathStrings :
         (lastOp.op = "command" /\ ThroughFile(file)
            /\ lastOp.cmd = W_echo \o SPACE \o text \o SPACE \o GT \o SPACE \o file)
         => Refused
    /\ (RanCommand({W_mv}) /\ LastArg(1) # EMPTY
          /\ Exists(Before(LastArg(0))) /\ IsFile(Before(LastArg(0)).node)
          /\ ~Before(LastArg(1)).thrown
          /\ IsProperPrefix(MoveTarget, Before(LastArg(0)).fullPath))
       => Refused

\* the path strings handed to resolvePath: those of the commands, a file
\* followed by '..', and a missing name followed by '..' and a file
ResolvePaths ==
    PathStrings \cup {README_MD \o SLASH \o DOTDOT,
                      D \o SLASH \o DOTDOT \o SLASH \o README_MD}

\* the segments of path that are walked
Segments(path) == FilterSegments(Split(StripTrailingSlash(path), "/"))

\* the canonical segments reached after each segment of path, from base
PrefixPaths(path, base) ==
    LET segments == Segments(path)
        Walked[i \in 0..Len(segments)] ==
            IF i = 0 THEN IF IsAbsolutePath(path) THEN <<>> ELSE base
            ELSE IF segments[i] = DOTDOT
                 THEN IF Len(Walked[i - 1]) = 0 THEN <<>> ELSE DropLast(Walked[i - 1])
                 ELSE Append(Walked[i - 1], segments[i])
    IN  Walked

\* a segment before the final one names a FILE or a missing child
Blocked(path, base, fs) ==
    \E i \in 1..(Len(Segments(path)) - 1) :
        /\ Segments(path)[i] # DOTDOT
        /\ ~HasChildren(getNodeFromPath(fs, PrefixPaths(path, base)[i]))

\* C20: when a segment before the final one names a FILE or a missing child,
\* resolvePath returns parent and node both absent; it never returns a FILE
\* as parent and never resolves `file/..` or `missing/../x` to a node.
C20_NoResolutionThroughFile ==
    \A path \in ResolvePaths :
        Blocked(path, currentPath, fileSystem)
        => /\ ~resolvePath(path, currentPath, fileSystem).thrown
           /\ ~IsNode(resolvePath(path, currentPath, fileSystem).parent)
           /\ ~IsNode(resolvePath(path, currentPath, fileSystem).node)

-----------------------------------------------------------------------------
(* C21..C26 *)

\* every node below children has a non-empty key and a non-empty name
RECURSIVE NamesNonEmpty(_)
NamesNonEmpty(children) ==
    \A k \in DOMAIN children :
        /\ k # EMPTY
        /\ children[k].name # EMPTY
        /\ IsDir(children[k]) => NamesNonEmpty(children[k].children)

\* C21: in every reachable tree every node other than the synthetic root
\* has a non-empty name; no command creates a child named by the empty
\* string.
C21_NamesNonEmpty == NamesNonEmpty(fileSystem)

\* C22: whenever `edit F` opens the closed editor, the buffer starts equal
\* to F's content at that moment (empty for a file the command has just
\* created), whatever was typed, saved or discarded in earlier sessions.
C22_BufferStartsAsFileContent ==
    (RanCommand({W_edit}) /\ Succeeded /\ ~prevOpen)
    => /\ editorState.isOpen
       /\ IsFile(getNodeFromPath(fileSystem, AbsoluteSegments(editorState.filePath)))
       /\ editorState.fileContent
            = getNodeFromPath(fileSystem, AbsoluteSegments(editorState.filePath)).content
       /\ content = editorState.fileContent

\* the "in progress" result shown while the oracle of action is awaited
Placeholder(action) ==
    CASE action = W_man -> Out("Fetching manual page...", W_man, EMPTY)
      [] action = W_python -> Out("Executing with AI...", W_python, EMPTY)
      [] OTHER -> Out("Thinking...", W_askai, EMPTY)

\* an oracle call is awaited: its entry is the last one and shows the
\* placeholder, and the session is loading, so no command can be submitted
AwaitingShown ==
    pending.kind # "none"
    => /\ isLoading
       /\ ~CanSubmit
       /\ Len(history) > 0
       /\ history[Len(history)].command = pending.entry.command
       /\ history[Len(history)].output = Placeholder(Action(pending.entry.command))

\* the step in which the awaited oracle call resolves
OracleCompletes == pending.kind # "none" /\ pending'.kind = "none"

\* C23: for python, askai and man with a valid operand the entry made at
\* submit time shows the placeholder until the oracle responds and no
\* command starts meanwhile; the response is written into that entry and no
\* other, and the completion changes neither the tree nor currentPath.
C23_OracleCompletion ==
    /\ []AwaitingShown
    /\ [][/\ pending.kind # "none" => submitted' = submitted
          /\ OracleCompletes
             => /\ Len(history') = Len(history)
                /\ \A i \in 1..(Len(history) - 1) : history'[i] = history[i]
                /\ history'[Len(history)].command = history[Len(history)].command
                /\ history'[Len(history)].path = history[Len(history)].path
                /\ history'[Len(history)].output.kind = "pre"
                /\ history'[Len(history)].output.text \in OracleResult(pending.kind)
                /\ fileSystem' = fileSystem
                /\ currentPath' = currentPath
                /\ ~isLoading']_vars

\* C23 witness: `python README.md` submitted after another command, its
\* oracle call resolved with "ok"
C23_Witness ==
    /\ lastOp.op = "oracle"
    /\ Action(lastOp.cmd) = W_python
    /\ Len(history) = 2
    /\ history[1].command # lastOp.cmd
    /\ history[2].command = lastOp.cmd
    /\ history[2].output = Out("pre", W_python, <<"o", "k">>)
    /\ ~isLoading

\* the last word of the last command line: the file of `echo text > file`
EchoDestination == LastWords[Len(LastWords)]

IsEchoRedirect ==
    /\ RanCommand({W_echo})
    /\ Len(LastWords) >= 4
    /\ LastWords[Len(LastWords) - 1] = GT

\* C24: `echo text > P` with P resolving to an existing DIRECTORY leaves that
\* directory and its whole subtree in the tree as they were.
C24_EchoKeepsDirectory ==
    (IsEchoRedirect /\ ExistsDir(Before(EchoDestination)))
    => getNodeFromPath(fileSystem, CanonicalBefore(EchoDestination))
         = Before(EchoDestination).node

\* C25: resolvePath returns a result for every path string from every
\* reachable currentPath and tree, one that no longer exists included; it
\* never recurses without end.
C25_ResolvePathTerminates ==
    \A path \in ResolvePaths : ~resolvePath(path, currentPath, fileSystem).thrown

\* every node below children is stored under its own name
RECURSIVE KeyedByName(_)
KeyedByName(children) ==
    \A k \in DOMAIN children :
        /\ children[k].name = k
        /\ IsDir(children[k]) => KeyedByName(children[k].children)

\* C26: in every reachable tree every directory's children mapping is keyed
\* by the child's own name; mkdir, touch, edit, echo, cp, mv and rm keep it so.
C26_KeyedByName == KeyedByName(fileSystem)

\* C26 witness: `mv README.md d` has renamed the file: it is stored under d
\* with name d, and README.md is gone from the directory
C26_Witness ==
    /\ RanCommand({W_mv}) /\ Succeeded
    /\ LastArg(0) = README_MD /\ LastArg(1) = D
    /\ IsFile(Before(README_MD).node)
    /\ ~Exists(Before(D))
    /\ IsFile(getNodeFromPath(fileSystem, prevPath \o <<D>>))
    /\ getNodeFromPath(fileSystem, prevPath \o <<D>>).name = D
    /\ getNodeFromPath(fileSystem, prevPath \o <<D>>).content
         = Before(README_MD).node.content
    /\ ~IsNode(getNodeFromPath(fileSystem, prevPath \o <<README_MD>>))

====
